---------------------------- MODULE Spec2Model ----------------------------
(***************************************************************************)
(* Model of the financial-ratio calculator of src/src/App.jsx: the React   *)
(* component's state cells, the numeric input handler, calculateRatios     *)
(* and handleClearForm.                                                     *)
(*                                                                         *)
(* Strings that the code inspects character by character (the six numeric  *)
(* fields, the values produced by toFixed) are sequences of one-character  *)
(* strings.  Strings the code only stores and compares as a whole (the     *)
(* error message, the interpretations, the currency code) are TLA+         *)
(* strings; the accented letters and the emoji of the labels are left out. *)
(*                                                                         *)
(* Numbers are exact rationals [num, den] with den > 0; den = 0 is NaN     *)
(* (num = 0) or an infinity (num = 1, -1).                                 *)
(* The code computes in IEEE-754 doubles.  On the inputs of this model     *)
(* (integers and decimals whose value is a dyadic rational, of magnitude    *)
(* far below 2^31) every parsed value is an exact double, the quotient is  *)
(* one correctly rounded division, and a quotient P/Q that differs from a  *)
(* threshold or from a rounding tie differs by at least 1/(200*Q), far     *)
(* more than the rounding error, so comparisons on the exact quotient      *)
(* agree with the comparisons on the double.  Where the exact quotient IS  *)
(* a rounding tie of toFixed(2), the outcome depends on the side to which  *)
(* the division was rounded: FloatSide computes that side.                 *)
(***************************************************************************)
EXTENDS Integers, Sequences, FiniteSets, TLC

VARIABLES companyTicker, selectedCurrency, reportDate,
          currentAssets, currentLiabilities, totalAssets,
          totalLiabilities, shareholdersEquity, inventory,
          currentRatio, currentRatioInterpretation,
          quickRatio, quickRatioInterpretation,
          debtToEquityRatio, debtToEquityInterpretation,
          debtToAssetsRatio, debtToAssetsInterpretation,
          error,
          calculated,   \* history: the handler that ran last is calculateRatios
          cleared       \* history: the handler that ran last is handleClearForm

inputs  == <<currentAssets, currentLiabilities, totalAssets,
             totalLiabilities, shareholdersEquity, inventory>>
header  == <<companyTicker, selectedCurrency, reportDate>>
results == <<currentRatio, currentRatioInterpretation,
             quickRatio, quickRatioInterpretation,
             debtToEquityRatio, debtToEquityInterpretation,
             debtToAssetsRatio, debtToAssetsInterpretation>>
vars    == <<header, inputs, results, error, calculated, cleared>>

---------------------------------------------------------------------------
(* Bounds of the model *)

\* integer amounts -MaxAmount..MaxAmount are among the field values tried
MaxAmount == 10

\* the currency selector offers its first MaxCurrencies options
MaxCurrencies == 2

---------------------------------------------------------------------------
(* Values *)

\* JavaScript null (distinct from every character sequence)
NULL == <<"null">>

\* the marker stored for a ratio whose denominator is zero
NA == <<"N", "/", "A">>

ValidationMessage == "Por favor, ingrese valores numericos validos en todos los campos."

DigitChars == <<"0", "1", "2", "3", "4", "5", "6", "7", "8", "9">>

IsDigit(c) == \E i \in 1..10 : DigitChars[i] = c

DigitVal(c) == (CHOOSE i \in 1..10 : DigitChars[i] = c) - 1

NaN == [num |-> 0, den |-> 0]

\* +Infinity; -Infinity is [num |-> -1, den |-> 0]
Infinity == [num |-> 1, den |-> 0]

isNaN(x) == x.den = 0 /\ x.num = 0

isInfinite(x) == x.den = 0 /\ x.num # 0

\* an integer numeral of more significant digits than this exceeds the
\* largest double (1.797...e308) and parses to Infinity
MaxFiniteDigits == 309

\* x === 0 (true of 0 and of -0, false of NaN)
IsZero(x) == ~isNaN(x) /\ x.num = 0

---------------------------------------------------------------------------
(* parseFloat: the longest prefix of the string that is a decimal literal  *)
(* (optional '-', digits, optional '.', digits; at least one digit), NaN   *)
(* when there is none.  Exponents, '+', "Infinity" and white space cannot  *)
(* occur in a stored field (handleDisplayNumericInputChange strips them).  *)
(* A numeral too large for a double parses to Infinity.                    *)

\* the length of the prefix of s before the first of the positions stops
LengthBefore(s, stops) ==
  IF stops = {} THEN Len(s)
  ELSE (CHOOSE i \in stops : \A j \in stops : i <= j) - 1

\* the number of leading digits of s
DigitRun(s) == LengthBefore(s, { i \in 1..Len(s) : ~IsDigit(s[i]) })

RECURSIVE DigitsValue(_)
DigitsValue(s) ==
  IF s = <<>> THEN 0
  ELSE 10 * DigitsValue(SubSeq(s, 1, Len(s) - 1)) + DigitVal(s[Len(s)])

\* the number of leading "0" of a digit run
LeadingZeros(s) == LengthBefore(s, { i \in 1..Len(s) : s[i] # "0" })

RECURSIVE Pow10(_)
Pow10(k) == IF k = 0 THEN 1 ELSE 10 * Pow10(k - 1)

parseFloat(s) ==
  LET neg      == s # <<>> /\ Head(s) = "-"
      body     == IF neg THEN Tail(s) ELSE s
      intLen   == DigitRun(body)
      rest     == SubSeq(body, intLen + 1, Len(body))
      hasDot   == rest # <<>> /\ Head(rest) = "."
      fracLen  == IF hasDot THEN DigitRun(Tail(rest)) ELSE 0
      zeros    == LeadingZeros(SubSeq(body, 1, intLen))
      intPart  == DigitsValue(SubSeq(body, zeros + 1, intLen))
      fracPart == DigitsValue(SubSeq(rest, 2, fracLen + 1))
      mag      == intPart * Pow10(fracLen) + fracPart
      sigLen   == intLen - zeros
  IN  IF intLen = 0 /\ fracLen = 0 THEN NaN
      ELSE IF sigLen > MaxFiniteDigits
           THEN [num |-> IF neg THEN -1 ELSE 1, den |-> 0]
      ELSE [num |-> IF neg THEN -mag ELSE mag, den |-> Pow10(fracLen)]

---------------------------------------------------------------------------
(* Arithmetic of the parsed numbers *)

Sign(k) == IF k < 0 THEN -1 ELSE IF k > 0 THEN 1 ELSE 0

\* a - b (Infinity - Infinity is NaN)
Minus(a, b) ==
  IF isNaN(a) \/ isNaN(b) THEN NaN
  ELSE IF isInfinite(a) THEN (IF isInfinite(b) /\ b.num = a.num THEN NaN ELSE a)
  ELSE IF isInfinite(b) THEN [num |-> -b.num, den |-> 0]
  ELSE [num |-> a.num * b.den - b.num * a.den, den |-> a.den * b.den]

\* a / b (Infinity / Infinity and 0 / 0 are NaN, x / Infinity is 0,
\* Infinity / x and x / 0 are infinite)
Quot(a, b) ==
  LET n == a.num * b.den
      d == a.den * b.num
  IN  IF d < 0 THEN [num |-> -n, den |-> -d]
      ELSE IF d > 0 THEN [num |-> n, den |-> d]
      ELSE IF n = 0 THEN NaN
      ELSE [num |-> Sign(n) * (IF b.num < 0 THEN -1 ELSE 1), den |-> 0]

\* a decimal literal of the source: n/d
Lit(n, d) == [num |-> n, den |-> d]

Lt(a, b) == a.num * b.den < b.num * a.den
Le(a, b) == a.num * b.den <= b.num * a.den
Gt(a, b) == Lt(b, a)
Ge(a, b) == Le(b, a)


---------------------------------------------------------------------------
(* Number.prototype.toFixed(2) *)

\* the decimal numeral of a natural number
RECURSIVE Digits(_)
Digits(k) ==
  IF k < 10 THEN <<DigitChars[k + 1]>>
  ELSE Digits(k \div 10) \o <<DigitChars[(k % 10) + 1]>>

\* (x * 2^p) mod q
RECURSIVE MulPow2Mod(_, _, _)
MulPow2Mod(x, p, q) ==
  IF p = 0 THEN x % q ELSE MulPow2Mod((2 * x) % q, p - 1, q)

\* for 0 < P < Q: the least k with P * 2^k >= Q
RECURSIVE ShiftUp(_, _)
ShiftUp(P, Q) == IF P >= Q THEN 0 ELSE 1 + ShiftUp(2 * P, Q)

\* for P >= Q > 0: the greatest e with Q * 2^e <= P
RECURSIVE ShiftDown(_, _)
ShiftDown(P, Q) == IF P < 2 * Q THEN 0 ELSE 1 + ShiftDown(P, 2 * Q)

\* The side of the exact quotient P/Q (P, Q > 0) on which the double
\* computed by the division lies: 0 when P/Q is a double, -1 when the
\* division rounded down, 1 when it rounded up.  With 2^52 <= (P/Q)*2^p <
\* 2^53 the 53-bit significand is the integer nearest to P*2^p/Q, so the
\* side is given by the remainder of P*2^p modulo Q (a remainder of exactly
\* Q/2 would need a quotient of 54 significant bits).
FloatSide(P, Q) ==
  LET p == IF P >= Q THEN 52 - ShiftDown(P, Q) ELSE 52 + ShiftUp(P, Q)
      r == MulPow2Mod(P, p, Q)
  IN  IF r = 0 THEN 0 ELSE IF 2 * r < Q THEN -1 ELSE 1

\* variant: the hundredths truncated, not rounded
Hundredths_Truncated(P, Q) == (100 * P) \div Q

\* variant: a quotient halfway between two hundredths always goes up
Hundredths_TiesUp(P, Q) ==
  LET n0  == (100 * P) \div Q
      rem == 100 * P - n0 * Q
  IN  IF 2 * rem < Q THEN n0 ELSE n0 + 1

\* n such that n/100 - x is as close to zero as possible for the double x
\* the division produced; of two such n the larger (x non-negative)
Hundredths(P, Q) ==
  LET n0  == (100 * P) \div Q
      rem == 100 * P - n0 * Q
  IN  IF 2 * rem < Q THEN n0
      ELSE IF 2 * rem > Q THEN n0 + 1
      ELSE IF FloatSide(P, Q) >= 0 THEN n0 + 1 ELSE n0

toFixed2(x) ==
  IF isNaN(x) THEN <<"N", "a", "N">>
  ELSE IF isInfinite(x)
       THEN (IF x.num < 0 THEN <<"-">> ELSE <<>>)
            \o <<"I", "n", "f", "i", "n", "i", "t", "y">>
  ELSE LET neg == x.num < 0
           n   == Hundredths(IF neg THEN -x.num ELSE x.num, x.den)
       IN  (IF neg THEN <<"-">> ELSE <<>>)
           \o Digits(n \div 100)
           \o <<".", DigitChars[((n % 100) \div 10) + 1], DigitChars[(n % 10) + 1]>>

---------------------------------------------------------------------------
(* The four classification cascades *)

\* variant: the lower bound of "Bueno" exclusive
getCurrentRatioInterpretation_StrictGood(ratio) ==
  IF isNaN(ratio) THEN ""
  ELSE IF Gt(ratio, Lit(20, 10)) THEN "Excelente"
  ELSE IF Gt(ratio, Lit(15, 10)) THEN "Bueno"
  ELSE IF Ge(ratio, Lit(10, 10)) THEN "Regular"
  ELSE IF Ge(ratio, Lit(5, 10)) THEN "Malo"
  ELSE "Pesimo"

getCurrentRatioInterpretation(ratio) ==
  IF isNaN(ratio) THEN ""
  ELSE IF Gt(ratio, Lit(20, 10)) THEN "Excelente"
  ELSE IF Ge(ratio, Lit(15, 10)) THEN "Bueno"
  ELSE IF Ge(ratio, Lit(10, 10)) THEN "Regular"
  ELSE IF Ge(ratio, Lit(5, 10)) THEN "Malo"
  ELSE "Pesimo"

\* variant: the lower bound of "Regular" exclusive
getQuickRatioInterpretation_StrictFair(ratio) ==
  IF isNaN(ratio) THEN ""
  ELSE IF Gt(ratio, Lit(15, 10)) THEN "Excelente"
  ELSE IF Ge(ratio, Lit(10, 10)) THEN "Bueno"
  ELSE IF Gt(ratio, Lit(7, 10)) THEN "Regular"
  ELSE IF Ge(ratio, Lit(3, 10)) THEN "Malo"
  ELSE "Pesimo"

getQuickRatioInterpretation(ratio) ==
  IF isNaN(ratio) THEN ""
  ELSE IF Gt(ratio, Lit(15, 10)) THEN "Excelente"
  ELSE IF Ge(ratio, Lit(10, 10)) THEN "Bueno"
  ELSE IF Ge(ratio, Lit(7, 10)) THEN "Regular"
  ELSE IF Ge(ratio, Lit(3, 10)) THEN "Malo"
  ELSE "Pesimo"

\* variant: the upper bound of "Malo" exclusive
getDebtToEquityInterpretation_StrictPoor(ratio) ==
  IF isNaN(ratio) THEN ""
  ELSE IF Lt(ratio, Lit(5, 10)) THEN "Excelente"
  ELSE IF Ge(ratio, Lit(5, 10)) /\ Le(ratio, Lit(10, 10)) THEN "Bueno"
  ELSE IF Gt(ratio, Lit(10, 10)) /\ Le(ratio, Lit(20, 10)) THEN "Regular"
  ELSE IF Gt(ratio, Lit(20, 10)) /\ Lt(ratio, Lit(50, 10)) THEN "Malo"
  ELSE "Pesimo"

getDebtToEquityInterpretation(ratio) ==
  IF isNaN(ratio) THEN ""
  ELSE IF Lt(ratio, Lit(5, 10)) THEN "Excelente"
  ELSE IF Ge(ratio, Lit(5, 10)) /\ Le(ratio, Lit(10, 10)) THEN "Bueno"
  ELSE IF Gt(ratio, Lit(10, 10)) /\ Le(ratio, Lit(20, 10)) THEN "Regular"
  ELSE IF Gt(ratio, Lit(20, 10)) /\ Le(ratio, Lit(50, 10)) THEN "Malo"
  ELSE "Pesimo"

\* variant: the upper bound of "Malo" exclusive
getDebtToAssetsInterpretation_StrictPoor(ratio) ==
  IF isNaN(ratio) THEN ""
  ELSE IF Lt(ratio, Lit(30, 100)) THEN "Excelente"
  ELSE IF Ge(ratio, Lit(30, 100)) /\ Le(ratio, Lit(50, 100)) THEN "Bueno"
  ELSE IF Gt(ratio, Lit(50, 100)) /\ Le(ratio, Lit(70, 100)) THEN "Regular"
  ELSE IF Gt(ratio, Lit(70, 100)) /\ Lt(ratio, Lit(90, 100)) THEN "Malo"
  ELSE "Pesimo"

getDebtToAssetsInterpretation(ratio) ==
  IF isNaN(ratio) THEN ""
  ELSE IF Lt(ratio, Lit(30, 100)) THEN "Excelente"
  ELSE IF Ge(ratio, Lit(30, 100)) /\ Le(ratio, Lit(50, 100)) THEN "Bueno"
  ELSE IF Gt(ratio, Lit(50, 100)) /\ Le(ratio, Lit(70, 100)) THEN "Regular"
  ELSE IF Gt(ratio, Lit(70, 100)) /\ Le(ratio, Lit(90, 100)) THEN "Malo"
  ELSE "Pesimo"

---------------------------------------------------------------------------
(* calculateRatios *)

\* variant: the inventory left out of the validation
AnyNaN_NoInventory ==
  \/ isNaN(parseFloat(currentAssets))
  \/ isNaN(parseFloat(currentLiabilities))
  \/ isNaN(parseFloat(totalAssets))
  \/ isNaN(parseFloat(totalLiabilities))
  \/ isNaN(parseFloat(shareholdersEquity))

\* the validation of the six parsed fields (App.jsx 211-212)
AnyNaN ==
  \/ isNaN(parseFloat(currentAssets))
  \/ isNaN(parseFloat(currentLiabilities))
  \/ isNaN(parseFloat(totalAssets))
  \/ isNaN(parseFloat(totalLiabilities))
  \/ isNaN(parseFloat(shareholdersEquity))
  \/ isNaN(parseFloat(inventory))

\* the value and the interpretation stored for each ratio

\* variant: the rounded value classified
CurrentRatioResult_ClassifyRounded(numCurrentAssets, numCurrentLiabilities) ==
  IF ~IsZero(numCurrentLiabilities)
  THEN LET calculatedCurrentRatio == Quot(numCurrentAssets, numCurrentLiabilities)
       IN  <<toFixed2(calculatedCurrentRatio),
             getCurrentRatioInterpretation(parseFloat(toFixed2(calculatedCurrentRatio)))>>
  ELSE <<NA, "Pasivos Circulantes es cero">>

CurrentRatioResult(numCurrentAssets, numCurrentLiabilities) ==
  IF ~IsZero(numCurrentLiabilities)
  THEN LET calculatedCurrentRatio == Quot(numCurrentAssets, numCurrentLiabilities)
       IN  <<toFixed2(calculatedCurrentRatio),
             getCurrentRatioInterpretation(calculatedCurrentRatio)>>
  ELSE <<NA, "Pasivos Circulantes es cero">>

\* variant: the inventory not subtracted
QuickRatioResult_WithInventory(numCurrentAssets, numInventory, numCurrentLiabilities) ==
  IF ~IsZero(numCurrentLiabilities)
  THEN LET calculatedQuickRatio == Quot(numCurrentAssets, numCurrentLiabilities)
       IN  <<toFixed2(calculatedQuickRatio),
             getQuickRatioInterpretation(calculatedQuickRatio)>>
  ELSE <<NA, "Pasivos Circulantes es cero">>

QuickRatioResult(numCurrentAssets, numInventory, numCurrentLiabilities) ==
  IF ~IsZero(numCurrentLiabilities)
  THEN LET calculatedQuickRatio ==
             Quot(Minus(numCurrentAssets, numInventory), numCurrentLiabilities)
       IN  <<toFixed2(calculatedQuickRatio),
             getQuickRatioInterpretation(calculatedQuickRatio)>>
  ELSE <<NA, "Pasivos Circulantes es cero">>

\* variant: a negative ratio left without interpretation
DebtToEquityResult_NoNegative(numTotalLiabilities, numShareholdersEquity) ==
  IF ~IsZero(numShareholdersEquity)
  THEN LET calculatedDebtToEquityRatio == Quot(numTotalLiabilities, numShareholdersEquity)
       IN  <<toFixed2(calculatedDebtToEquityRatio),
             IF calculatedDebtToEquityRatio.num < 0 THEN ""
             ELSE getDebtToEquityInterpretation(calculatedDebtToEquityRatio)>>
  ELSE <<NA, "Patrimonio Neto es cero">>

DebtToEquityResult(numTotalLiabilities, numShareholdersEquity) ==
  IF ~IsZero(numShareholdersEquity)
  THEN LET calculatedDebtToEquityRatio == Quot(numTotalLiabilities, numShareholdersEquity)
       IN  <<toFixed2(calculatedDebtToEquityRatio),
             getDebtToEquityInterpretation(calculatedDebtToEquityRatio)>>
  ELSE <<NA, "Patrimonio Neto es cero">>

\* variant: the guard on the equity instead of the total assets
DebtToAssetsResult_GuardEquity(numTotalLiabilities, numTotalAssets) ==
  IF ~IsZero(parseFloat(shareholdersEquity))
  THEN LET calculatedDebtToAssetsRatio == Quot(numTotalLiabilities, numTotalAssets)
       IN  <<toFixed2(calculatedDebtToAssetsRatio),
             getDebtToAssetsInterpretation(calculatedDebtToAssetsRatio)>>
  ELSE <<NA, "Activos Totales es cero">>

DebtToAssetsResult(numTotalLiabilities, numTotalAssets) ==
  IF ~IsZero(numTotalAssets)
  THEN LET calculatedDebtToAssetsRatio == Quot(numTotalLiabilities, numTotalAssets)
       IN  <<toFixed2(calculatedDebtToAssetsRatio),
             getDebtToAssetsInterpretation(calculatedDebtToAssetsRatio)>>
  ELSE <<NA, "Activos Totales es cero">>

\* variant: the results of an earlier call not reset when validation fails
calculateRatiosInvalid_KeepResults ==
  /\ AnyNaN
  /\ error' = ValidationMessage
  /\ UNCHANGED results

\* the early return of the validation: the resets of lines 193-201 stand
calculateRatiosInvalid ==
  /\ AnyNaN
  /\ error' = ValidationMessage
  /\ currentRatio' = NULL
  /\ quickRatio' = NULL
  /\ debtToEquityRatio' = NULL
  /\ debtToAssetsRatio' = NULL
  /\ currentRatioInterpretation' = ""
  /\ quickRatioInterpretation' = ""
  /\ debtToEquityInterpretation' = ""
  /\ debtToAssetsInterpretation' = ""

\* variant: the error of an earlier call not reset
calculateRatiosValid_KeepError ==
  /\ ~AnyNaN
  /\ LET numCurrentAssets      == parseFloat(currentAssets)
         numCurrentLiabilities == parseFloat(currentLiabilities)
         numTotalAssets        == parseFloat(totalAssets)
         numTotalLiabilities   == parseFloat(totalLiabilities)
         numShareholdersEquity == parseFloat(shareholdersEquity)
         numInventory          == parseFloat(inventory)
         cr == CurrentRatioResult(numCurrentAssets, numCurrentLiabilities)
         qr == QuickRatioResult(numCurrentAssets, numInventory, numCurrentLiabilities)
         de == DebtToEquityResult(numTotalLiabilities, numShareholdersEquity)
         da == DebtToAssetsResult(numTotalLiabilities, numTotalAssets)
     IN  /\ error' = error
         /\ currentRatio' = cr[1]
         /\ currentRatioInterpretation' = cr[2]
         /\ quickRatio' = qr[1]
         /\ quickRatioInterpretation' = qr[2]
         /\ debtToEquityRatio' = de[1]
         /\ debtToEquityInterpretation' = de[2]
         /\ debtToAssetsRatio' = da[1]
         /\ debtToAssetsInterpretation' = da[2]

calculateRatiosValid ==
  /\ ~AnyNaN
  /\ LET numCurrentAssets      == parseFloat(currentAssets)
         numCurrentLiabilities == parseFloat(currentLiabilities)
         numTotalAssets        == parseFloat(totalAssets)
         numTotalLiabilities   == parseFloat(totalLiabilities)
         numShareholdersEquity == parseFloat(shareholdersEquity)
         numInventory          == parseFloat(inventory)
         cr == CurrentRatioResult(numCurrentAssets, numCurrentLiabilities)
         qr == QuickRatioResult(numCurrentAssets, numInventory, numCurrentLiabilities)
         de == DebtToEquityResult(numTotalLiabilities, numShareholdersEquity)
         da == DebtToAssetsResult(numTotalLiabilities, numTotalAssets)
     IN  /\ error' = ""
         /\ currentRatio' = cr[1]
         /\ currentRatioInterpretation' = cr[2]
         /\ quickRatio' = qr[1]
         /\ quickRatioInterpretation' = qr[2]
         /\ debtToEquityRatio' = de[1]
         /\ debtToEquityInterpretation' = de[2]
         /\ debtToAssetsRatio' = da[1]
         /\ debtToAssetsInterpretation' = da[2]

calculateRatios ==
  /\ \/ calculateRatiosInvalid
     \/ calculateRatiosValid
  /\ calculated' = TRUE
  /\ cleared' = FALSE
  /\ UNCHANGED <<header, inputs>>

---------------------------------------------------------------------------
(* The other handlers *)

\* e.target.value.replace(/,/g, '').replace(/[^0-9.-]/g, '')
CleanedForStorage(inputVal) ==
  LET noCommas == SelectSeq(inputVal, LAMBDA c : c # ",")
  IN  SelectSeq(noCommas, LAMBDA c : IsDigit(c) \/ c = "." \/ c = "-")

\* what a user types or pastes into a numeric field
TypedInputs == { <<>>, <<"0">>, <<"1", ",", "5", "a">> }

handleDisplayNumericInputChange ==
  \E inputVal \in TypedInputs :
    LET cleanedForStorage == CleanedForStorage(inputVal)
    IN  /\ \/ currentAssets' = cleanedForStorage
              /\ UNCHANGED <<currentLiabilities, totalAssets, totalLiabilities,
                             shareholdersEquity, inventory>>
           \/ currentLiabilities' = cleanedForStorage
              /\ UNCHANGED <<currentAssets, totalAssets, totalLiabilities,
                             shareholdersEquity, inventory>>
           \/ inventory' = cleanedForStorage
              /\ UNCHANGED <<currentAssets, currentLiabilities, totalAssets,
                             totalLiabilities, shareholdersEquity>>
           \/ totalAssets' = cleanedForStorage
              /\ UNCHANGED <<currentAssets, currentLiabilities, totalLiabilities,
                             shareholdersEquity, inventory>>
           \/ totalLiabilities' = cleanedForStorage
              /\ UNCHANGED <<currentAssets, currentLiabilities, totalAssets,
                             shareholdersEquity, inventory>>
           \/ shareholdersEquity' = cleanedForStorage
              /\ UNCHANGED <<currentAssets, currentLiabilities, totalAssets,
                             totalLiabilities, inventory>>
        /\ calculated' = FALSE
        /\ cleared' = FALSE
        /\ UNCHANGED <<header, results, error>>

\* the first MaxCurrencies options of the currency selector
CurrencyOptions == <<"USD", "MXN", "EUR", "JPY", "GBP", "CAD", "AUD", "CHF",
                     "CNY", "INR", "BRL", "RUB", "ZAR">>

setSelectedCurrency ==
  /\ \E i \in 1..MaxCurrencies : selectedCurrency' = CurrencyOptions[i]
  /\ calculated' = FALSE
  /\ cleared' = FALSE
  /\ UNCHANGED <<companyTicker, reportDate, inputs, results, error>>

\* String.prototype.toUpperCase on the letters typed
toUpperCase(t) ==
  [i \in 1..Len(t) |-> CASE t[i] = "a" -> "A" [] t[i] = "b" -> "B" [] OTHER -> t[i]]

setCompanyTicker ==
  /\ \E typed \in { <<"a", "B">> } : companyTicker' = toUpperCase(typed)
  /\ calculated' = FALSE
  /\ cleared' = FALSE
  /\ UNCHANGED <<selectedCurrency, reportDate, inputs, results, error>>

handleDateInputChange ==
  /\ \E inputVal \in { "2025-01-31" } : reportDate' = inputVal
  /\ calculated' = FALSE
  /\ cleared' = FALSE
  /\ UNCHANGED <<companyTicker, selectedCurrency, inputs, results, error>>

\* variant: the currency selector not reset
handleClearForm_KeepCurrency ==
  /\ companyTicker' = <<>>
  /\ selectedCurrency' = selectedCurrency
  /\ reportDate' = ""
  /\ currentAssets' = <<>>
  /\ currentLiabilities' = <<>>
  /\ totalAssets' = <<>>
  /\ totalLiabilities' = <<>>
  /\ shareholdersEquity' = <<>>
  /\ inventory' = <<>>
  /\ currentRatio' = NULL
  /\ quickRatio' = NULL
  /\ debtToEquityRatio' = NULL
  /\ debtToAssetsRatio' = NULL
  /\ currentRatioInterpretation' = ""
  /\ quickRatioInterpretation' = ""
  /\ debtToEquityInterpretation' = ""
  /\ debtToAssetsInterpretation' = ""
  /\ error' = ""
  /\ calculated' = FALSE
  /\ cleared' = TRUE

\* the condition under which the render shows the result block
ResultBlockShown == currentRatio # NULL /\ error = ""

handleClearForm ==
  /\ companyTicker' = <<>>
  /\ selectedCurrency' = "USD"
  /\ reportDate' = ""
  /\ currentAssets' = <<>>
  /\ currentLiabilities' = <<>>
  /\ totalAssets' = <<>>
  /\ totalLiabilities' = <<>>
  /\ shareholdersEquity' = <<>>
  /\ inventory' = <<>>
  /\ currentRatio' = NULL
  /\ quickRatio' = NULL
  /\ debtToEquityRatio' = NULL
  /\ debtToAssetsRatio' = NULL
  /\ currentRatioInterpretation' = ""
  /\ quickRatioInterpretation' = ""
  /\ debtToEquityInterpretation' = ""
  /\ debtToAssetsInterpretation' = ""
  /\ error' = ""
  /\ calculated' = FALSE
  /\ cleared' = TRUE

---------------------------------------------------------------------------
(* Field contents tried.  Every one is a string the numeric input handler  *)
(* can store (characters 0-9, '.', '-'), so every combination is a state   *)
(* of the form that a sequence of edits reaches.                            *)

\* the numeral a user types for the integer k
Numeral(k) == IF k < 0 THEN <<"-">> \o Digits(-k) ELSE Digits(k)

Amounts == { Numeral(k) : k \in -MaxAmount..MaxAmount }

\* the amounts of the worked examples (150/100, 100-30 over 100, 250/100,
\* 400/500)
LargeAmounts == { Numeral(k) : k \in {30, 100, 150, 250, 400, 500} }

\* strings with no numeric prefix
Unparseable == { <<>>, <<"-">>, <<".">>, <<"-", ".">> }

\* storable strings that are not plain integer numerals
OddNumerals == { <<"-", "0">>, <<"1", ".", "5">>, <<"-", ".", "5">>, <<"2", ".">>,
                 <<"1", "2", "-", "3">>, <<"2", ".", "5", ".", "1">> }

Rich == Amounts \cup LargeAmounts \cup OddNumerals \cup Unparseable

Few == { <<>>, <<"-">>, Numeral(0), Numeral(3), <<"-", "2", ".", "5">> }

\* the state after construction (App.jsx 6-25), except the six numeric fields
InitRest ==
  /\ companyTicker = <<>>
  /\ selectedCurrency = "USD"
  /\ reportDate = ""
  /\ currentRatio = NULL
  /\ currentRatioInterpretation = ""
  /\ quickRatio = NULL
  /\ quickRatioInterpretation = ""
  /\ debtToEquityRatio = NULL
  /\ debtToEquityInterpretation = ""
  /\ debtToAssetsRatio = NULL
  /\ debtToAssetsInterpretation = ""
  /\ error = ""
  /\ calculated = FALSE
  /\ cleared = FALSE

\* the liquidity fields vary
InitLiquidity ==
  /\ currentAssets \in Rich
  /\ currentLiabilities \in Rich
  /\ inventory \in { Numeral(0), Numeral(30), Numeral(-3), <<"2", ".", "5">>, <<".">> }
  /\ totalAssets = Numeral(500)
  /\ totalLiabilities = Numeral(400)
  /\ shareholdersEquity = Numeral(100)

\* the solvency fields vary
InitSolvency ==
  /\ totalLiabilities \in Rich
  /\ shareholdersEquity \in Rich
  /\ totalAssets \in { Numeral(0), Numeral(500), Numeral(10), Numeral(-10), <<"-">> }
  /\ currentAssets = Numeral(150)
  /\ currentLiabilities = Numeral(100)
  /\ inventory = Numeral(30)

\* all six fields vary
InitAll ==
  /\ currentAssets \in Few
  /\ currentLiabilities \in Few
  /\ inventory \in Few
  /\ totalAssets \in Few
  /\ totalLiabilities \in Few
  /\ shareholdersEquity \in Few

\* quotients on a threshold and within half a hundredth of one:
\* 150/100 and 151/101, 152/101, 100/200 and 101/203, 101/201, ...
InitRounding ==
  /\ currentAssets \in { Numeral(150), Numeral(151) }
  /\ currentLiabilities \in { Numeral(100), Numeral(101) }
  /\ inventory \in { Numeral(0), Numeral(-1) }
  /\ totalLiabilities \in { Numeral(100), Numeral(101) }
  /\ shareholdersEquity \in { Numeral(200), Numeral(203) }
  /\ totalAssets \in { Numeral(200), Numeral(201) }

\* a numeral of MaxFiniteDigits + 1 digits: it parses to Infinity
Overflowing == [i \in 1..(MaxFiniteDigits + 1) |-> "9"]

\* numerals too large for a double among the fields
InitOverflow ==
  /\ currentAssets \in { Overflowing, Numeral(1) }
  /\ currentLiabilities \in { Overflowing, Numeral(1) }
  /\ inventory \in { Overflowing, Numeral(0) }
  /\ totalLiabilities \in { Overflowing, <<"-">> \o Overflowing }
  /\ shareholdersEquity \in { Overflowing, Numeral(2) }
  /\ totalAssets \in { Overflowing, Numeral(0) }

InitCalc ==
  InitRest /\ (InitLiquidity \/ InitSolvency \/ InitAll \/ InitRounding \/ InitOverflow)

NextCalc == calculateRatios

\* the component after construction (App.jsx 6-25)
Init ==
  /\ InitRest
  /\ currentAssets = <<>>
  /\ currentLiabilities = <<>>
  /\ totalAssets = <<>>
  /\ totalLiabilities = <<>>
  /\ shareholdersEquity = <<>>
  /\ inventory = <<>>

Next ==
  \/ handleDisplayNumericInputChange
  \/ setSelectedCurrency
  \/ setCompanyTicker
  \/ handleDateInputChange
  \/ calculateRatios
  \/ handleClearForm

\* the component under any sequence of user events
Spec == Init /\ [][Next]_vars

\* calculateRatios applied to the field contents drawn by InitCalc
SpecCalc == InitCalc /\ [][NextCalc]_vars

---------------------------------------------------------------------------
(* Vocabulary of the properties *)

Calculated == calculated

Parses(s) == ~isNaN(parseFloat(s))

AllParse ==
  /\ Parses(currentAssets)
  /\ Parses(currentLiabilities)
  /\ Parses(inventory)
  /\ Parses(totalAssets)
  /\ Parses(totalLiabilities)
  /\ Parses(shareholdersEquity)

\* s parses to a finite number
ParsesFinite(s) == Parses(s) /\ ~isInfinite(parseFloat(s))

AllFinite ==
  /\ ParsesFinite(currentAssets)
  /\ ParsesFinite(currentLiabilities)
  /\ ParsesFinite(inventory)
  /\ ParsesFinite(totalAssets)
  /\ ParsesFinite(totalLiabilities)
  /\ ParsesFinite(shareholdersEquity)

NoResults ==
  /\ currentRatio = NULL
  /\ quickRatio = NULL
  /\ debtToEquityRatio = NULL
  /\ debtToAssetsRatio = NULL
  /\ currentRatioInterpretation = ""
  /\ quickRatioInterpretation = ""
  /\ debtToEquityInterpretation = ""
  /\ debtToAssetsInterpretation = ""

Labels == {"Excelente", "Bueno", "Regular", "Malo", "Pesimo"}

\* v is a numeral with exactly two fractional digits: -?d+.dd
IsTwoDecimal(v) ==
  LET body == IF v # <<>> /\ Head(v) = "-" THEN Tail(v) ELSE v
      n    == Len(body)
  IN  /\ n >= 4
      /\ body[n - 2] = "."
      /\ \A i \in (1..n) \ {n - 2} : IsDigit(body[i])

\* the exact quotients of the field values (denominator nonzero)
CurrentQuotient == Quot(parseFloat(currentAssets), parseFloat(currentLiabilities))
QuickQuotient ==
  Quot(Minus(parseFloat(currentAssets), parseFloat(inventory)),
       parseFloat(currentLiabilities))
DebtToEquityQuotient == Quot(parseFloat(totalLiabilities), parseFloat(shareholdersEquity))
DebtToAssetsQuotient == Quot(parseFloat(totalLiabilities), parseFloat(totalAssets))

CurrentDefined == ~IsZero(parseFloat(currentLiabilities))
DebtToEquityDefined == ~IsZero(parseFloat(shareholdersEquity))
DebtToAssetsDefined == ~IsZero(parseFloat(totalAssets))

\* The threshold tables of the specification, one interval per label
CurrentTable(r) ==
  CASE Gt(r, Lit(2, 1))                           -> "Excelente"
    [] Ge(r, Lit(3, 2)) /\ Le(r, Lit(2, 1))       -> "Bueno"
    [] Ge(r, Lit(1, 1)) /\ Lt(r, Lit(3, 2))       -> "Regular"
    [] Ge(r, Lit(1, 2)) /\ Lt(r, Lit(1, 1))       -> "Malo"
    [] Lt(r, Lit(1, 2))                           -> "Pesimo"

QuickTable(q) ==
  CASE Gt(q, Lit(3, 2))                           -> "Excelente"
    [] Ge(q, Lit(1, 1)) /\ Le(q, Lit(3, 2))       -> "Bueno"
    [] Ge(q, Lit(7, 10)) /\ Lt(q, Lit(1, 1))      -> "Regular"
    [] Ge(q, Lit(3, 10)) /\ Lt(q, Lit(7, 10))     -> "Malo"
    [] Lt(q, Lit(3, 10))                          -> "Pesimo"

DebtToEquityTable(d) ==
  CASE Lt(d, Lit(1, 2))                           -> "Excelente"
    [] Ge(d, Lit(1, 2)) /\ Le(d, Lit(1, 1))       -> "Bueno"
    [] Gt(d, Lit(1, 1)) /\ Le(d, Lit(2, 1))       -> "Regular"
    [] Gt(d, Lit(2, 1)) /\ Le(d, Lit(5, 1))       -> "Malo"
    [] Gt(d, Lit(5, 1))                           -> "Pesimo"

DebtToAssetsTable(a) ==
  CASE Lt(a, Lit(3, 10))                          -> "Excelente"
    [] Ge(a, Lit(3, 10)) /\ Le(a, Lit(5, 10))     -> "Bueno"
    [] Gt(a, Lit(5, 10)) /\ Le(a, Lit(7, 10))     -> "Regular"
    [] Gt(a, Lit(7, 10)) /\ Le(a, Lit(9, 10))     -> "Malo"
    [] Gt(a, Lit(9, 10))                          -> "Pesimo"

---------------------------------------------------------------------------
(* Properties *)

\* C1: after calculateRatios with at least one of the six fields not
\* parseable as a number, the validation message is set, the four ratio
\* values are null and the four interpretations are empty, whatever the
\* other five fields hold.
C1_InvalidFieldNoResults ==
  (Calculated /\ ~AllParse) => (error = ValidationMessage /\ NoResults)

\* only the inventory is unparseable, and the calculation was refused
C1_Witness ==
  /\ Calculated
  /\ ~Parses(inventory)
  /\ Parses(currentAssets) /\ Parses(currentLiabilities) /\ Parses(totalAssets)
  /\ Parses(totalLiabilities) /\ Parses(shareholdersEquity)
  /\ ~IsZero(parseFloat(currentLiabilities))
  /\ error = ValidationMessage

C3_ZeroDenominatorPerRatio ==
  (Calculated /\ AllFinite) =>
    /\ error = ""
    /\ IF CurrentDefined
       THEN /\ IsTwoDecimal(currentRatio) /\ currentRatioInterpretation \in Labels
            /\ IsTwoDecimal(quickRatio) /\ quickRatioInterpretation \in Labels
       ELSE /\ currentRatio = NA
            /\ currentRatioInterpretation = "Pasivos Circulantes es cero"
            /\ quickRatio = NA
            /\ quickRatioInterpretation = "Pasivos Circulantes es cero"
    /\ IF DebtToEquityDefined
       THEN IsTwoDecimal(debtToEquityRatio) /\ debtToEquityInterpretation \in Labels
       ELSE /\ debtToEquityRatio = NA
            /\ debtToEquityInterpretation = "Patrimonio Neto es cero"
    /\ IF DebtToAssetsDefined
       THEN IsTwoDecimal(debtToAssetsRatio) /\ debtToAssetsInterpretation \in Labels
       ELSE /\ debtToAssetsRatio = NA
            /\ debtToAssetsInterpretation = "Activos Totales es cero"

\* total assets zero, the other denominators nonzero: one 'N/A', three values
C3_Witness ==
  /\ Calculated
  /\ AllFinite
  /\ ~DebtToAssetsDefined /\ DebtToEquityDefined /\ CurrentDefined
  /\ debtToAssetsRatio = NA
  /\ IsTwoDecimal(debtToEquityRatio)
  /\ IsTwoDecimal(currentRatio)
  /\ IsTwoDecimal(quickRatio)
  /\ error = ""

\* C4: for a Current Ratio r with nonzero denominator the label is the one
\* of the table (Excelente iff r > 2.0, Bueno iff 1.5 <= r <= 2.0, Regular
\* iff 1.0 <= r < 1.5, Malo iff 0.5 <= r < 1.0, Pesimo iff r < 0.5), and
\* 150 over 100 is Bueno.
C4_CurrentRatioTable ==
  (Calculated /\ AllFinite /\ CurrentDefined) =>
    /\ currentRatioInterpretation = CurrentTable(CurrentQuotient)
    /\ (currentAssets = Numeral(150) /\ currentLiabilities = Numeral(100))
         => currentRatioInterpretation = "Bueno"

\* 150 over 100: displayed 1.50, Bueno
C4_Witness ==
  /\ Calculated
  /\ currentAssets = Numeral(150)
  /\ currentLiabilities = Numeral(100)
  /\ AllFinite
  /\ currentRatio = <<"1", ".", "5", "0">>
  /\ currentRatioInterpretation = "Bueno"

\* C5: for a Quick Ratio q with nonzero denominator the label is the one of
\* the table (Excelente iff q > 1.5, Bueno iff 1.0 <= q <= 1.5, Regular iff
\* 0.7 <= q < 1.0, Malo iff 0.3 <= q < 0.7, Pesimo iff q < 0.3).
C5_QuickRatioTable ==
  (Calculated /\ AllFinite /\ CurrentDefined) =>
    quickRatioInterpretation = QuickTable(QuickQuotient)

\* (4 - (-3)) over 10: the quotient is the threshold 0.7, Regular
C5_Witness ==
  /\ Calculated
  /\ currentAssets = Numeral(4)
  /\ inventory = Numeral(-3)
  /\ currentLiabilities = Numeral(10)
  /\ AllFinite
  /\ quickRatioInterpretation = "Regular"

\* C6 (as stated): with currentAssets 100, inventory 30, currentLiabilities
\* 100 and the other fields valid, the Quick Ratio is 0.70, classified Bueno.
C6_QuickExampleGood ==
  (/\ Calculated
   /\ AllFinite
   /\ currentAssets = Numeral(100)
   /\ inventory = Numeral(30)
   /\ currentLiabilities = Numeral(100))
  => (quickRatio = <<"0", ".", "7", "0">> /\ quickRatioInterpretation = "Bueno")

\* C6 (amended): with currentAssets 100, inventory 30, currentLiabilities
\* 100 and the other fields valid, the Quick Ratio is 0.70, classified
\* Regular: 0.7 is the closed lower edge of the Regular interval [0.7, 1.0).
C6_QuickExampleFair ==
  (/\ Calculated
   /\ AllFinite
   /\ currentAssets = Numeral(100)
   /\ inventory = Numeral(30)
   /\ currentLiabilities = Numeral(100))
  => (quickRatio = <<"0", ".", "7", "0">> /\ quickRatioInterpretation = "Regular")

\* the example has been calculated
C6_Witness ==
  /\ Calculated
  /\ AllFinite
  /\ currentAssets = Numeral(100)
  /\ inventory = Numeral(30)
  /\ currentLiabilities = Numeral(100)
  /\ quickRatio = <<"0", ".", "7", "0">>
  /\ quickRatioInterpretation = "Regular"

\* C7: for a Debt-to-Equity ratio d with nonzero denominator, negative d
\* included, the label is the one of the table (Excelente iff d < 0.5,
\* Bueno iff 0.5 <= d <= 1.0, Regular iff 1.0 < d <= 2.0, Malo iff
\* 2.0 < d <= 5.0, Pesimo iff d > 5.0), and 250 over 100 is Malo.
C7_DebtToEquityTable ==
  (Calculated /\ AllFinite /\ DebtToEquityDefined) =>
    /\ debtToEquityInterpretation = DebtToEquityTable(DebtToEquityQuotient)
    /\ (totalLiabilities = Numeral(250) /\ shareholdersEquity = Numeral(100))
         => debtToEquityInterpretation = "Malo"

\* 250 over 100: displayed 2.50, Malo
C7_Witness ==
  /\ Calculated
  /\ AllFinite
  /\ totalLiabilities = Numeral(250)
  /\ shareholdersEquity = Numeral(100)
  /\ debtToEquityRatio = <<"2", ".", "5", "0">>
  /\ debtToEquityInterpretation = "Malo"

\* C8: for a Debt-to-Assets ratio a with nonzero denominator, negative a
\* included, the label is the one of the table (Excelente iff a < 0.30,
\* Bueno iff 0.30 <= a <= 0.50, Regular iff 0.50 < a <= 0.70, Malo iff
\* 0.70 < a <= 0.90, Pesimo iff a > 0.90), and 400 over 500 is Malo.
C8_DebtToAssetsTable ==
  (Calculated /\ AllFinite /\ DebtToAssetsDefined) =>
    /\ debtToAssetsInterpretation = DebtToAssetsTable(DebtToAssetsQuotient)
    /\ (totalLiabilities = Numeral(400) /\ totalAssets = Numeral(500))
         => debtToAssetsInterpretation = "Malo"

\* 400 over 500: displayed 0.80, Malo
C8_Witness ==
  /\ Calculated
  /\ AllFinite
  /\ totalLiabilities = Numeral(400)
  /\ totalAssets = Numeral(500)
  /\ debtToAssetsRatio = <<"0", ".", "8", "0">>
  /\ debtToAssetsInterpretation = "Malo"

\* C9: for each of the four ratios the label is the bucket of the exact
\* quotient, not of the two-decimal value displayed: whenever the two fall
\* in different buckets of the table, the label stored is the bucket of the
\* exact quotient.
C9_LabelOfExactQuotient ==
  (Calculated /\ AllFinite) =>
    /\ (CurrentDefined
          /\ CurrentTable(CurrentQuotient) # CurrentTable(parseFloat(currentRatio)))
       => currentRatioInterpretation = CurrentTable(CurrentQuotient)
    /\ (CurrentDefined
          /\ QuickTable(QuickQuotient) # QuickTable(parseFloat(quickRatio)))
       => quickRatioInterpretation = QuickTable(QuickQuotient)
    /\ (DebtToEquityDefined
          /\ DebtToEquityTable(DebtToEquityQuotient)
               # DebtToEquityTable(parseFloat(debtToEquityRatio)))
       => debtToEquityInterpretation = DebtToEquityTable(DebtToEquityQuotient)
    /\ (DebtToAssetsDefined
          /\ DebtToAssetsTable(DebtToAssetsQuotient)
               # DebtToAssetsTable(parseFloat(debtToAssetsRatio)))
       => debtToAssetsInterpretation = DebtToAssetsTable(DebtToAssetsQuotient)

\* 151/101, 152/101, 101/203 and 101/201 are displayed as 1.50, 1.50, 0.50
\* and 0.50, the values of 150/100, 150/100, 100/200 and 100/200, and are
\* labelled Regular, Excelente, Excelente and Regular where those are Bueno
C9_Witness ==
  /\ Calculated
  /\ AllFinite
  /\ CurrentDefined /\ DebtToEquityDefined /\ DebtToAssetsDefined
  /\ currentRatio = <<"1", ".", "5", "0">>
  /\ currentRatioInterpretation = "Regular"
  /\ CurrentTable(parseFloat(currentRatio)) = "Bueno"
  /\ quickRatio = <<"1", ".", "5", "0">>
  /\ quickRatioInterpretation = "Excelente"
  /\ QuickTable(parseFloat(quickRatio)) = "Bueno"
  /\ debtToEquityRatio = <<"0", ".", "5", "0">>
  /\ debtToEquityInterpretation = "Excelente"
  /\ DebtToEquityTable(parseFloat(debtToEquityRatio)) = "Bueno"
  /\ debtToAssetsRatio = <<"0", ".", "5", "0">>
  /\ debtToAssetsInterpretation = "Regular"
  /\ DebtToAssetsTable(parseFloat(debtToAssetsRatio)) = "Bueno"

\* C10 (as stated): for every valid input the label stored is the table
\* bucket of the rounded two-decimal value stored for display.
C10_LabelOfRoundedValue ==
  (Calculated /\ AllFinite) =>
    /\ CurrentDefined =>
         /\ currentRatioInterpretation = CurrentTable(parseFloat(currentRatio))
         /\ quickRatioInterpretation = QuickTable(parseFloat(quickRatio))
    /\ DebtToEquityDefined =>
         debtToEquityInterpretation = DebtToEquityTable(parseFloat(debtToEquityRatio))
    /\ DebtToAssetsDefined =>
         debtToAssetsInterpretation = DebtToAssetsTable(parseFloat(debtToAssetsRatio))

\* the stored value v is a two-decimal numeral within half a hundredth of x
RoundedToTwoDecimals(v, x) ==
  /\ IsTwoDecimal(v)
  /\ LET shown == parseFloat(v)
     IN  /\ Le(Minus(x, shown), Lit(1, 200))
         /\ Le(Minus(shown, x), Lit(1, 200))

\* C10 (amended): each computed ratio is rounded to two decimal places for
\* display only: the value stored is a two-decimal numeral within half a
\* hundredth of the quotient, and the label stored is the table bucket of
\* the unrounded quotient.
C10_RoundedForDisplayOnly ==
  (Calculated /\ AllFinite) =>
    /\ CurrentDefined =>
         /\ RoundedToTwoDecimals(currentRatio, CurrentQuotient)
         /\ currentRatioInterpretation = CurrentTable(CurrentQuotient)
         /\ RoundedToTwoDecimals(quickRatio, QuickQuotient)
         /\ quickRatioInterpretation = QuickTable(QuickQuotient)
    /\ DebtToEquityDefined =>
         /\ RoundedToTwoDecimals(debtToEquityRatio, DebtToEquityQuotient)
         /\ debtToEquityInterpretation = DebtToEquityTable(DebtToEquityQuotient)
    /\ DebtToAssetsDefined =>
         /\ RoundedToTwoDecimals(debtToAssetsRatio, DebtToAssetsQuotient)
         /\ debtToAssetsInterpretation = DebtToAssetsTable(DebtToAssetsQuotient)

\* 151 over 101 is displayed as 1.50, a Bueno value, and labelled Regular
C10_Witness ==
  /\ Calculated
  /\ AllFinite
  /\ currentAssets = Numeral(151)
  /\ currentLiabilities = Numeral(101)
  /\ currentRatio = <<"1", ".", "5", "0">>
  /\ currentRatioInterpretation = "Regular"

\* the magnitude of a finite number
Abs(x) == [num |-> IF x.num < 0 THEN -x.num ELSE x.num, den |-> x.den]

\* the finite number x lies exactly halfway between two hundredths
IsHundredthsTie(x) ==
  /\ (200 * Abs(x).num) % x.den = 0
  /\ (100 * Abs(x).num) % x.den # 0

\* the number of hundredths of the magnitude of x, halves rounded up
HalfAwayHundredths(x) == (200 * Abs(x).num + x.den) \div (2 * x.den)

\* the number of hundredths of the magnitude of a two-decimal numeral
ShownHundredths(v) == Abs(parseFloat(v)).num

\* the sign of the two-decimal numeral v is not opposite to the sign of x
SameSign(v, x) == Sign(parseFloat(v).num) * Sign(x.num) >= 0

\* the stored value v is the two-decimal numeral of x rounded to the
\* nearest hundredth, halves away from zero
RoundedHalfAwayFromZero(v, x) ==
  /\ IsTwoDecimal(v)
  /\ ShownHundredths(v) = HalfAwayHundredths(x)
  /\ SameSign(v, x)

\* C11 (as stated): for every ratio with a nonzero denominator the stored
\* value is the quotient rounded to exactly two decimal places, ties half
\* away from zero, and a quotient of 1/3 is stored as 0.33.
C11_TiesHalfAwayFromZero ==
  (Calculated /\ AllFinite) =>
    /\ CurrentDefined =>
         /\ RoundedHalfAwayFromZero(currentRatio, CurrentQuotient)
         /\ RoundedHalfAwayFromZero(quickRatio, QuickQuotient)
    /\ DebtToEquityDefined =>
         RoundedHalfAwayFromZero(debtToEquityRatio, DebtToEquityQuotient)
    /\ DebtToAssetsDefined =>
         RoundedHalfAwayFromZero(debtToAssetsRatio, DebtToAssetsQuotient)
    /\ (currentAssets = Numeral(1) /\ currentLiabilities = Numeral(3))
         => currentRatio = <<"0", ".", "3", "3">>

\* the stored value v is the two-decimal numeral nearest to the double that
\* the division of x produced: nearer than half a hundredth to x when x is
\* not halfway between two hundredths; when it is, the neighbour of larger
\* magnitude if the double is x itself or above it in magnitude, and the
\* neighbour of smaller magnitude if the double is below it
NearestHundredthOfDouble(v, x) ==
  /\ IsTwoDecimal(v)
  /\ SameSign(v, x)
  /\ LET above == ShownHundredths(v) * x.den - 100 * Abs(x).num
     IN  IF ~IsHundredthsTie(x)
         THEN 2 * above < x.den /\ -2 * above < x.den
         ELSE IF FloatSide(Abs(x).num, x.den) >= 0
              THEN 2 * above = x.den
              ELSE -2 * above = x.den

\* C11 (amended): for every ratio with a nonzero denominator the stored
\* value has exactly two fractional digits and is the hundredth nearest to
\* the double computed by the division; a quotient exactly halfway between
\* two hundredths goes away from zero only when the double is not below it
\* (1/8 is stored as 0.13, 6/400 as 0.01), and 1/3 is stored as 0.33.
C11_NearestToComputedDouble ==
  (Calculated /\ AllFinite) =>
    /\ CurrentDefined =>
         /\ NearestHundredthOfDouble(currentRatio, CurrentQuotient)
         /\ NearestHundredthOfDouble(quickRatio, QuickQuotient)
    /\ DebtToEquityDefined =>
         NearestHundredthOfDouble(debtToEquityRatio, DebtToEquityQuotient)
    /\ DebtToAssetsDefined =>
         NearestHundredthOfDouble(debtToAssetsRatio, DebtToAssetsQuotient)
    /\ (currentAssets = Numeral(1) /\ currentLiabilities = Numeral(3))
         => currentRatio = <<"0", ".", "3", "3">>
    /\ (currentAssets = Numeral(1) /\ currentLiabilities = Numeral(8))
         => currentRatio = <<"0", ".", "1", "3">>
    /\ (currentAssets = Numeral(6) /\ currentLiabilities = Numeral(400))
         => currentRatio = <<"0", ".", "0", "1">>

\* 6 over 400 is 0.015, halfway between 0.01 and 0.02, and is stored as 0.01
C11_Witness ==
  /\ Calculated
  /\ AllFinite
  /\ currentAssets = Numeral(6)
  /\ currentLiabilities = Numeral(400)
  /\ IsHundredthsTie(CurrentQuotient)
  /\ currentRatio = <<"0", ".", "0", "1">>

\* the result state that the six field values determine by themselves
ResultsOfFields ==
  IF ~AllParse THEN <<NULL, "", NULL, "", NULL, "", NULL, "">>
  ELSE LET cr == CurrentRatioResult(parseFloat(currentAssets),
                                    parseFloat(currentLiabilities))
           qr == QuickRatioResult(parseFloat(currentAssets), parseFloat(inventory),
                                  parseFloat(currentLiabilities))
           de == DebtToEquityResult(parseFloat(totalLiabilities),
                                    parseFloat(shareholdersEquity))
           da == DebtToAssetsResult(parseFloat(totalLiabilities),
                                    parseFloat(totalAssets))
       IN  <<cr[1], cr[2], qr[1], qr[2], de[1], de[2], da[1], da[2]>>

ErrorOfFields == IF AllParse THEN "" ELSE ValidationMessage

\* C12: the result state left by calculateRatios (four values, four
\* interpretations, error) is a function of the six field values only:
\* whatever the earlier results and error, the currency, the ticker and the
\* date, it is the one the six fields determine, so a second call with
\* unchanged fields leaves what the first left.
C12_ResultsFunctionOfFields ==
  Calculated => (results = ResultsOfFields /\ error = ErrorOfFields)

\* a calculation made with another currency, a ticker and a date entered:
\* 15 over 15, with an equity of zero
C12_Witness ==
  /\ Calculated
  /\ selectedCurrency = "MXN"
  /\ companyTicker = <<"A", "B">>
  /\ reportDate = "2025-01-31"
  /\ error = ""
  /\ currentRatio = <<"1", ".", "0", "0">>
  /\ debtToEquityRatio = NA

\* C13: whenever the error message is non-empty the four ratio values are
\* null, the four interpretations are empty and the result block is not
\* shown.
C13_ErrorSuppressesResults ==
  error # "" => (NoResults /\ ~ResultBlockShown)

\* a calculation refused because of one field, the other five holding
\* numbers that would give ratios
C13_Witness ==
  /\ Calculated
  /\ error = ValidationMessage
  /\ ~Parses(inventory)
  /\ Parses(currentAssets) /\ Parses(currentLiabilities) /\ Parses(totalAssets)
  /\ Parses(totalLiabilities) /\ Parses(shareholdersEquity)
  /\ CurrentDefined
  /\ NoResults

\* the state after construction
InitialState ==
  /\ companyTicker = <<>>
  /\ reportDate = ""
  /\ inputs = <<<<>>, <<>>, <<>>, <<>>, <<>>, <<>>>>
  /\ selectedCurrency = "USD"
  /\ NoResults
  /\ error = ""

\* C14: handleClearForm leaves the initial state: ticker, report date and
\* the six numeric fields empty, currency 'USD', the four ratio values null,
\* the four interpretations empty, error empty.
C14_ClearLeavesInitialState ==
  cleared => InitialState

\* the form has just been cleared
C14_Witness ==
  /\ cleared
  /\ selectedCurrency = "USD"
  /\ currentRatio = NULL
  /\ currentAssets = <<>>

\* the whole of s is one decimal numeral, -?(d+(.d*)?|.d+), of a finite number
DenotesFiniteNumber(s) ==
  LET body == IF s # <<>> /\ Head(s) = "-" THEN Tail(s) ELSE s
      dots == { i \in 1..Len(body) : body[i] = "." }
  IN  /\ \A i \in 1..Len(body) : IsDigit(body[i]) \/ body[i] = "."
      /\ Cardinality(dots) <= 1
      /\ \E i \in 1..Len(body) : IsDigit(body[i])
      /\ ParsesFinite(s)

AllDenoteFiniteNumbers ==
  /\ DenotesFiniteNumber(currentAssets)
  /\ DenotesFiniteNumber(currentLiabilities)
  /\ DenotesFiniteNumber(inventory)
  /\ DenotesFiniteNumber(totalAssets)
  /\ DenotesFiniteNumber(totalLiabilities)
  /\ DenotesFiniteNumber(shareholdersEquity)

\* C15: calculateRatios computes only when every one of the six field
\* strings, taken in its entirety, denotes a finite number: with a field such
\* as '12-3', '2.5.1' or a digit string that overflows to Infinity it sets
\* the validation message and produces no ratios.
C15_OnlyCompleteFiniteNumerals ==
  (Calculated /\ ~AllDenoteFiniteNumbers) =>
    (error = ValidationMessage /\ NoResults)

\* '12-3' over 100 was computed as 12 over 100
C15_Witness ==
  /\ Calculated
  /\ currentAssets = <<"1", "2", "-", "3">>
  /\ currentLiabilities = Numeral(100)
  /\ error = ""
  /\ currentRatio = <<"0", ".", "1", "2">>

\* C16: whenever the result block is shown, the four values and labels in
\* it are the ones calculateRatios produces from the six field values held
\* at that moment.
C16_ShownResultsAreOfCurrentFields ==
  ResultBlockShown => results = ResultsOfFields

\* 15 over 15 was calculated, then the current assets were edited to 0:
\* the block shows 1.00 next to the new input
C16_Witness ==
  /\ ~Calculated
  /\ ResultBlockShown
  /\ currentAssets = <<"0">>
  /\ currentLiabilities = <<"1", "5">>
  /\ currentRatio = <<"1", ".", "0", "0">>

\* C17: the four ratio values are all null or all non-null, and each
\* interpretation is non-empty exactly when its ratio value is non-null.
C17_ValuesAndLabelsTogether ==
  /\ \/ /\ currentRatio = NULL /\ quickRatio = NULL
        /\ debtToEquityRatio = NULL /\ debtToAssetsRatio = NULL
     \/ /\ currentRatio # NULL /\ quickRatio # NULL
        /\ debtToEquityRatio # NULL /\ debtToAssetsRatio # NULL
  /\ (currentRatioInterpretation # "") <=> (currentRatio # NULL)
  /\ (quickRatioInterpretation # "") <=> (quickRatio # NULL)
  /\ (debtToEquityInterpretation # "") <=> (debtToEquityRatio # NULL)
  /\ (debtToAssetsInterpretation # "") <=> (debtToAssetsRatio # NULL)

\* Infinity over Infinity: the value stored is 'NaN' and it has no label
C17_Witness ==
  /\ Calculated
  /\ currentAssets = Overflowing
  /\ currentLiabilities = Overflowing
  /\ error = ""
  /\ currentRatio = <<"N", "a", "N">>
  /\ currentRatioInterpretation = ""


=============================================================================
